---- MODULE Spec2Model ----
(***************************************************************************)
(* Model of money-machine/src-tauri/src/lib.rs: the OS keep-alive commands *)
(* (enable_keep_alive / disable_keep_alive over the process-wide           *)
(* KEEP_AWAKE_HANDLE mutex) and the OS keychain commands (store_api_key /  *)
(* get_api_key / delete_api_key).                                          *)
(*                                                                         *)
(* Every command is run by one of the dispatcher's threads.  A thread's pc *)
(* is its position inside the command it is running.  The OS power         *)
(* management API and the OS keychain are the environment: each request to *)
(* them is one atomic step whose outcome (granted, refused, and for the    *)
(* handle creation also a panic) is chosen nondeterministically.           *)
(***************************************************************************)
EXTENDS Integers, Sequences, FiniteSets, TLC

(* ------------------------------ bounds -------------------------------- *)
\* number of dispatcher threads that run commands concurrently
NThreads == 3
\* total number of command invocations in one behaviour
MaxCalls == 4
\* number of keychain command invocations among them
MaxVaultCalls == 2

Threads == 1..NThreads

\* error descriptions the OS power-management layer may give
PowerErrors == {"inhibit refused", "power service unavailable"}
\* error descriptions the OS keychain may give besides a missing entry
StoreErrors == {"platform failure"}
\* the keychain's description of a missing entry
NoEntryError == "no matching entry"
\* key names and secrets the callers pass
Keys == {"k1", "k2"}
Values == {"v1", "v2"}

(* ------------------------- values and results ------------------------- *)
\* Option<T>: None is the empty tuple, Some(x) the tuple <<x>>
None == <<>>
Some(x) == <<x>>
is_some(o) == Len(o) = 1
is_none(o) == Len(o) = 0

\* Result<String, String>
Ok(m) == [ok |-> TRUE, msg |-> m]
Err(m) == [ok |-> FALSE, msg |-> m]

\* PoisonError's Display text, what e.to_string() gives at lines 107 and 126
PoisonMsg == "poisoned lock: another task failed inside"

MsgAlreadyActive == "Keep-Alive already active"
MsgEnabled == "Keep-Alive enabled"
MsgNotActive == "Keep-Alive not active"
MsgDisabled == "Keep-Alive disabled"
EnableFailed(e) == "Failed to enable Keep-Alive: " \o e

\* the builder chain of lines 113-117 on the handle the OS granted
KeepAwakeNew(n) == [id |-> n, display |-> FALSE, idle |-> FALSE, sleep |-> FALSE]
display(h, b) == [h EXCEPT !.display = b]
idle(h, b) == [h EXCEPT !.idle = b]
sleep(h, b) == [h EXCEPT !.sleep = b]

BuildAwake_NoSleep(n) == idle(display(KeepAwakeNew(n), FALSE), TRUE)

BuildAwake(n) == sleep(idle(display(KeepAwakeNew(n), FALSE), TRUE), TRUE)

VARIABLES
  handle,      \* KEEP_AWAKE_HANDLE's contents: Option<KeepAwake>
  lockHolder,  \* the thread holding KEEP_AWAKE_HANDLE's mutex, 0 when free
  poisoned,    \* the mutex's poison flag
  osHandles,   \* the sleep-inhibition handles alive at the OS
  created,     \* number of handles the OS has granted so far
  pc,          \* each thread's position
  awake,       \* each thread's local `awake` (line 113)
  reqs,        \* the OS requests each thread's running command has made
  kaLog,       \* the keep-alive calls that ended, in the order they passed the lock
  store,       \* the OS keychain under SERVICE_NAME: key name -> Option<secret>
  store0,      \* what the keychain held when the process started
  arg,         \* each thread's key_name and key_value arguments
  vaultLog     \* the keychain calls that ended, in the order they ended

kaVars == <<handle, lockHolder, poisoned, osHandles, created, awake, kaLog>>
vaultVars == <<store, store0, arg, vaultLog>>
vars == <<handle, lockHolder, poisoned, osHandles, created, pc, awake, reqs, kaLog,
          store, store0, arg, vaultLog>>

NoArg == [key |-> "", val |-> ""]

\* the positions inside a keep-alive command and inside a keychain command
KaPcs == {"e_lock", "e_check", "e_new", "e_install", "d_lock", "d_check"}
VaultPcs == {"s_entry", "s_set", "g_entry", "g_get", "x_entry", "x_del"}
\* commands invoked so far: those that ended, and those still running
Running(pcs) == Cardinality({t \in Threads : pc[t] \in pcs})
VaultCalls == Len(vaultLog) + Running(VaultPcs)
Calls == Len(kaLog) + Len(vaultLog) + Running(KaPcs \cup VaultPcs)

\* a new process starts with an empty slot and a free, unpoisoned mutex; the
\* keychain outlives the process, so it starts with any contents
Init ==
  /\ handle = None
  /\ lockHolder = 0
  /\ poisoned = FALSE
  /\ osHandles = {}
  /\ created = 0
  /\ pc = [t \in Threads |-> "idle"]
  /\ awake = [t \in Threads |-> None]
  /\ reqs = [t \in Threads |-> <<>>]
  /\ kaLog = <<>>
  /\ store \in [Keys -> {None} \cup {Some(v) : v \in Values}]
  /\ store0 = store
  /\ arg = [t \in Threads |-> NoArg]
  /\ vaultLog = <<>>

(* ------------------------------ dispatch ------------------------------ *)
\* the dispatcher runs a new command on the first thread that is free
Dispatch(t) ==
  /\ pc[t] = "idle"
  /\ \A u \in Threads : u < t => pc[u] # "idle"
  /\ Calls < MaxCalls

\* the command returns to its caller (its Result is the `res` of the log
\* entry it leaves); the thread is free for the next command
Finish(t) ==
  /\ pc' = [pc EXCEPT ![t] = "idle"]
  /\ reqs' = [reqs EXCEPT ![t] = <<>>]

(* ------------------------------ the mutex ----------------------------- *)
CanLock_NoMutex(t) == TRUE

\* Mutex::lock blocks until no thread holds the mutex
CanLock(t) == lockHolder = 0

\* dropping the MutexGuard releases the mutex; a guard dropped while its
\* thread is panicking sets the poison flag
Unlock(panicking) ==
  /\ lockHolder' = 0
  /\ poisoned' = (poisoned \/ panicking)

\* what a command that panicked leaves in the log: no Result reaches the caller
Panicked == [ok |-> FALSE, msg |-> "<panic>"]

\* a keep-alive call's record: what it found in the slot, what it left
\* there, the failure it met (None when none), the Result it returned, the
\* OS requests it made and how many other keep-alive commands were running
\* when it ended
KaEntry(t, o, post, fault, res, rq) ==
  [op |-> o, pre |-> handle, post |-> post, fault |-> fault, res |-> res,
   reqs |-> rq, others |-> Running(KaPcs) - 1]

DropHeld_Leaks(live) == live

\* assigning to the slot drops the KeepAwake it held, which ends that
\* handle's inhibition at the OS
DropHeld(live) == live \ {h \in live : handle = Some(h)}

(* -------------------------- enable_keep_alive ------------------------- *)
CallEnable(t) ==
  /\ Dispatch(t)
  /\ pc' = [pc EXCEPT ![t] = "e_lock"]
  /\ UNCHANGED <<reqs, kaVars, vaultVars>>

\* line 107, lock() gives Ok(guard)
EnableLock(t) ==
  /\ pc[t] = "e_lock"
  /\ CanLock(t)
  /\ ~poisoned
  /\ lockHolder' = t
  /\ pc' = [pc EXCEPT ![t] = "e_check"]
  /\ UNCHANGED <<handle, poisoned, osHandles, created, awake, reqs, kaLog, vaultVars>>

\* line 107, lock() gives Err(PoisonError): map_err, `?` returns; the guard
\* inside the error is dropped with it
EnableLockErr(t) ==
  /\ pc[t] = "e_lock"
  /\ CanLock(t)
  /\ poisoned
  /\ Finish(t)
  /\ kaLog' = Append(kaLog, KaEntry(t, "enable", handle, Some("lock"), Err(PoisonMsg), reqs[t]))
  /\ UNCHANGED <<handle, lockHolder, poisoned, osHandles, created, awake, vaultVars>>

EnableAlready_AsError(t) ==
  /\ pc[t] = "e_check"
  /\ is_some(handle)
  /\ Finish(t)
  /\ Unlock(FALSE)
  /\ kaLog' = Append(kaLog, KaEntry(t, "enable", handle, None, Err(MsgAlreadyActive), reqs[t]))
  /\ UNCHANGED <<handle, osHandles, created, awake, vaultVars>>

\* lines 109-111
EnableAlready(t) ==
  /\ pc[t] = "e_check"
  /\ is_some(handle)
  /\ Finish(t)
  /\ Unlock(FALSE)
  /\ kaLog' = Append(kaLog, KaEntry(t, "enable", handle, None, Ok(MsgAlreadyActive), reqs[t]))
  /\ UNCHANGED <<handle, osHandles, created, awake, vaultVars>>

EnableCheckNone_Unchecked(t) ==
  /\ pc[t] = "e_check"
  /\ pc' = [pc EXCEPT ![t] = "e_new"]
  /\ UNCHANGED <<reqs, kaVars, vaultVars>>

EnableCheckNone_ReleasesLock(t) ==
  /\ pc[t] = "e_check"
  /\ ~is_some(handle)
  /\ pc' = [pc EXCEPT ![t] = "e_new"]
  /\ lockHolder' = 0
  /\ UNCHANGED <<handle, poisoned, osHandles, created, awake, reqs, kaLog, vaultVars>>

\* line 109, the slot is empty
EnableCheckNone(t) ==
  /\ pc[t] = "e_check"
  /\ ~is_some(handle)
  /\ pc' = [pc EXCEPT ![t] = "e_new"]
  /\ UNCHANGED <<reqs, kaVars, vaultVars>>

\* lines 113-117, the OS grants the handle
EnableNewOk(t) ==
  /\ pc[t] = "e_new"
  /\ created' = created + 1
  /\ awake' = [awake EXCEPT ![t] = Some(BuildAwake(created + 1))]
  /\ osHandles' = osHandles \cup {BuildAwake(created + 1)}
  /\ reqs' = [reqs EXCEPT ![t] = Append(@, "KeepAwake::new")]
  /\ pc' = [pc EXCEPT ![t] = "e_install"]
  /\ UNCHANGED <<handle, lockHolder, poisoned, kaLog, vaultVars>>

EnableNewErr_NoDescription(t) ==
  /\ pc[t] = "e_new"
  /\ \E e \in PowerErrors :
       kaLog' = Append(kaLog, KaEntry(t, "enable", handle, Some(e), Err(EnableFailed("")),
                                      Append(reqs[t], "KeepAwake::new")))
  /\ Finish(t)
  /\ Unlock(FALSE)
  /\ UNCHANGED <<handle, osHandles, created, awake, vaultVars>>

EnableNewErr_KeepsLock(t) ==
  /\ pc[t] = "e_new"
  /\ \E e \in PowerErrors :
       kaLog' = Append(kaLog, KaEntry(t, "enable", handle, Some(e), Err(EnableFailed(e)),
                                      Append(reqs[t], "KeepAwake::new")))
  /\ Finish(t)
  /\ UNCHANGED <<handle, lockHolder, poisoned, osHandles, created, awake, vaultVars>>

\* lines 113-114, the OS refuses: map_err, `?` returns and drops the guard
EnableNewErr(t) ==
  /\ pc[t] = "e_new"
  /\ \E e \in PowerErrors :
       kaLog' = Append(kaLog, KaEntry(t, "enable", handle, Some(e), Err(EnableFailed(e)),
                                      Append(reqs[t], "KeepAwake::new")))
  /\ Finish(t)
  /\ Unlock(FALSE)
  /\ UNCHANGED <<handle, osHandles, created, awake, vaultVars>>

\* line 113, the library call panics: the thread unwinds, the guard is
\* dropped while panicking, the command never returns and its thread ends
EnableNewPanic(t) ==
  /\ pc[t] = "e_new"
  /\ pc' = [pc EXCEPT ![t] = "panicked"]
  /\ reqs' = [reqs EXCEPT ![t] = <<>>]
  /\ Unlock(TRUE)
  /\ kaLog' = Append(kaLog, KaEntry(t, "enable", handle, Some("panic"), Panicked,
                                    Append(reqs[t], "KeepAwake::new")))
  /\ UNCHANGED <<handle, osHandles, created, awake, vaultVars>>

EnableInstall_NoInstall(t) ==
  /\ pc[t] = "e_install"
  /\ osHandles' = osHandles \ {awake[t][1]}
  /\ awake' = [awake EXCEPT ![t] = None]
  /\ Finish(t)
  /\ Unlock(FALSE)
  /\ kaLog' = Append(kaLog, KaEntry(t, "enable", handle, None, Ok(MsgEnabled), reqs[t]))
  /\ UNCHANGED <<handle, created, vaultVars>>

\* lines 119-121
EnableInstall(t) ==
  /\ pc[t] = "e_install"
  /\ handle' = awake[t]
  /\ osHandles' = DropHeld(osHandles)
  /\ awake' = [awake EXCEPT ![t] = None]
  /\ Finish(t)
  /\ Unlock(FALSE)
  /\ kaLog' = Append(kaLog, KaEntry(t, "enable", awake[t], None, Ok(MsgEnabled), reqs[t]))
  /\ UNCHANGED <<created, vaultVars>>

(* -------------------------- disable_keep_alive ------------------------ *)
CallDisable(t) ==
  /\ Dispatch(t)
  /\ pc' = [pc EXCEPT ![t] = "d_lock"]
  /\ UNCHANGED <<reqs, kaVars, vaultVars>>

\* line 126, lock() gives Ok(guard)
DisableLock(t) ==
  /\ pc[t] = "d_lock"
  /\ CanLock(t)
  /\ ~poisoned
  /\ lockHolder' = t
  /\ pc' = [pc EXCEPT ![t] = "d_check"]
  /\ UNCHANGED <<handle, poisoned, osHandles, created, awake, reqs, kaLog, vaultVars>>

\* line 126, lock() gives Err(PoisonError)
DisableLockErr(t) ==
  /\ pc[t] = "d_lock"
  /\ CanLock(t)
  /\ poisoned
  /\ Finish(t)
  /\ kaLog' = Append(kaLog, KaEntry(t, "disable", handle, Some("lock"), Err(PoisonMsg), reqs[t]))
  /\ UNCHANGED <<handle, lockHolder, poisoned, osHandles, created, awake, vaultVars>>

DisableNotActive_AsError(t) ==
  /\ pc[t] = "d_check"
  /\ is_none(handle)
  /\ Finish(t)
  /\ Unlock(FALSE)
  /\ kaLog' = Append(kaLog, KaEntry(t, "disable", handle, None, Err(MsgNotActive), reqs[t]))
  /\ UNCHANGED <<handle, osHandles, created, awake, vaultVars>>

\* lines 128-130
DisableNotActive(t) ==
  /\ pc[t] = "d_check"
  /\ is_none(handle)
  /\ Finish(t)
  /\ Unlock(FALSE)
  /\ kaLog' = Append(kaLog, KaEntry(t, "disable", handle, None, Ok(MsgNotActive), reqs[t]))
  /\ UNCHANGED <<handle, osHandles, created, awake, vaultVars>>

DisableDrop_KeepsHandle(t) ==
  /\ pc[t] = "d_check"
  /\ ~is_none(handle)
  /\ Finish(t)
  /\ Unlock(FALSE)
  /\ kaLog' = Append(kaLog, KaEntry(t, "disable", handle, None, Ok(MsgDisabled), reqs[t]))
  /\ UNCHANGED <<handle, osHandles, created, awake, vaultVars>>

DisableDrop_Fails(t) ==
  /\ pc[t] = "d_check"
  /\ ~is_none(handle)
  /\ handle' = None
  /\ osHandles' = DropHeld(osHandles)
  /\ Finish(t)
  /\ Unlock(FALSE)
  /\ kaLog' = Append(kaLog, KaEntry(t, "disable", None, None, Err("Failed to disable Keep-Alive"), reqs[t]))
  /\ UNCHANGED <<created, awake, vaultVars>>

\* lines 132-134
DisableDrop(t) ==
  /\ pc[t] = "d_check"
  /\ ~is_none(handle)
  /\ handle' = None
  /\ osHandles' = DropHeld(osHandles)
  /\ Finish(t)
  /\ Unlock(FALSE)
  /\ kaLog' = Append(kaLog, KaEntry(t, "disable", None, None, Ok(MsgDisabled), reqs[t]))
  /\ UNCHANGED <<created, awake, vaultVars>>

(* ----------------------------- OS keychain ---------------------------- *)
StoredMsg(k) == "Key '" \o k \o "' stored securely"
DeletedMsg(k) == "Key '" \o k \o "' deleted"
KeyringError(e) == "Keyring error: " \o e
StoreFailed(e) == "Failed to store key: " \o e
RetrieveFailed(e) == "Failed to retrieve key: " \o e
DeleteFailed(e) == "Failed to delete key: " \o e

\* a keychain call's record: its arguments, the key's secret before and
\* after the call, the OS error it met (None when none), the Result it
\* returned, the OS requests it made, how many other keychain commands
\* were running when it ended and what the keep-alive mutex was then
VaultEntry(t, o, post, fault, res, rq) ==
  [op |-> o, key |-> arg[t].key, val |-> arg[t].val,
   pre |-> store[arg[t].key], post |-> post, fault |-> fault, res |-> res,
   reqs |-> Append(reqs[t], rq), others |-> Running(VaultPcs) - 1,
   mutex |-> IF poisoned THEN "poisoned" ELSE IF lockHolder # 0 THEN "held" ELSE "free"]

\* the command ends with `res` after the request `rq`, which left the
\* keychain as it was
VaultFinish(t, o, fault, res, rq) ==
  /\ Finish(t)
  /\ arg' = [arg EXCEPT ![t] = NoArg]
  /\ vaultLog' = Append(vaultLog, VaultEntry(t, o, store[arg[t].key], fault, res, rq))
  /\ UNCHANGED <<store, store0, kaVars>>

\* Entry::new(SERVICE_NAME, &key_name) gives Err (lines 147, 159, 168)
EntryErr(t, at, o) ==
  /\ pc[t] = at
  /\ \E e \in StoreErrors : VaultFinish(t, o, Some(e), Err(KeyringError(e)), "Entry::new")

EntryOk_WaitsForLock(t, at, to) ==
  /\ pc[t] = at
  /\ lockHolder = 0 /\ ~poisoned
  /\ pc' = [pc EXCEPT ![t] = to]
  /\ reqs' = [reqs EXCEPT ![t] = Append(@, "Entry::new")]
  /\ UNCHANGED <<vaultVars, kaVars>>

\* Entry::new(SERVICE_NAME, &key_name) gives Ok(entry)
EntryOk(t, at, to) ==
  /\ pc[t] = at
  /\ pc' = [pc EXCEPT ![t] = to]
  /\ reqs' = [reqs EXCEPT ![t] = Append(@, "Entry::new")]
  /\ UNCHANGED <<vaultVars, kaVars>>

(* ---------------------------- store_api_key --------------------------- *)
CallStore(t) ==
  /\ Dispatch(t)
  /\ VaultCalls < MaxVaultCalls
  /\ \E k \in Keys, v \in Values : arg' = [arg EXCEPT ![t] = [key |-> k, val |-> v]]
  /\ pc' = [pc EXCEPT ![t] = "s_entry"]
  /\ UNCHANGED <<reqs, store, vaultLog, store0, kaVars>>

\* line 147
StoreEntryErr(t) == EntryErr(t, "s_entry", "store")
StoreEntryOk(t) == EntryOk(t, "s_entry", "s_set")

StoreSetOk_KeepsOld(t) ==
  /\ pc[t] = "s_set"
  /\ store' = IF is_some(store[arg[t].key]) THEN store
              ELSE [store EXCEPT ![arg[t].key] = Some(arg[t].val)]
  /\ Finish(t)
  /\ arg' = [arg EXCEPT ![t] = NoArg]
  /\ vaultLog' = Append(vaultLog, VaultEntry(t, "store", store'[arg[t].key], None,
                                             Ok(StoredMsg(arg[t].key)), "set_password"))
  /\ UNCHANGED <<store0, kaVars>>

StoreSetOk_IgnoresKey(t) ==
  /\ pc[t] = "s_set"
  /\ store' = [k \in Keys |-> Some(arg[t].val)]
  /\ Finish(t)
  /\ arg' = [arg EXCEPT ![t] = NoArg]
  /\ vaultLog' = Append(vaultLog, VaultEntry(t, "store", store'[arg[t].key], None,
                                             Ok(StoredMsg(arg[t].key)), "set_password"))
  /\ UNCHANGED <<store0, kaVars>>

\* lines 149-154, the keychain accepts the write
StoreSetOk(t) ==
  /\ pc[t] = "s_set"
  /\ store' = [store EXCEPT ![arg[t].key] = Some(arg[t].val)]
  /\ Finish(t)
  /\ arg' = [arg EXCEPT ![t] = NoArg]
  /\ vaultLog' = Append(vaultLog, VaultEntry(t, "store", store'[arg[t].key], None,
                                             Ok(StoredMsg(arg[t].key)), "set_password"))
  /\ UNCHANGED <<store0, kaVars>>

StoreSetErr_Writes(t) ==
  /\ pc[t] = "s_set"
  /\ store' = [store EXCEPT ![arg[t].key] = Some(arg[t].val)]
  /\ Finish(t)
  /\ arg' = [arg EXCEPT ![t] = NoArg]
  /\ \E e \in StoreErrors :
       vaultLog' = Append(vaultLog, VaultEntry(t, "store", store'[arg[t].key], Some(e),
                                               Err(StoreFailed(e)), "set_password"))
  /\ UNCHANGED <<store0, kaVars>>

StoreSetErr_Swallowed(t) ==
  /\ pc[t] = "s_set"
  /\ \E e \in StoreErrors : VaultFinish(t, "store", Some(e), Ok(StoredMsg(arg[t].key)), "set_password")

\* lines 149-151, the keychain rejects the write
StoreSetErr(t) ==
  /\ pc[t] = "s_set"
  /\ \E e \in StoreErrors : VaultFinish(t, "store", Some(e), Err(StoreFailed(e)), "set_password")

(* ----------------------------- get_api_key ---------------------------- *)
CallGet(t) ==
  /\ Dispatch(t)
  /\ VaultCalls < MaxVaultCalls
  /\ \E k \in Keys : arg' = [arg EXCEPT ![t] = [key |-> k, val |-> ""]]
  /\ pc' = [pc EXCEPT ![t] = "g_entry"]
  /\ UNCHANGED <<reqs, store, vaultLog, store0, kaVars>>

\* line 159
GetEntryErr(t) == EntryErr(t, "g_entry", "get")
GetEntryOk(t) == EntryOk(t, "g_entry", "g_get")

GetOk_Cached(t) ==
  /\ pc[t] = "g_get"
  /\ is_some(store0[arg[t].key])
  /\ VaultFinish(t, "get", None, Ok(store0[arg[t].key][1]), "get_password")

\* lines 161-163, the keychain holds a secret for the key
GetOk(t) ==
  /\ pc[t] = "g_get"
  /\ is_some(store[arg[t].key])
  /\ VaultFinish(t, "get", None, Ok(store[arg[t].key][1]), "get_password")

\* lines 161-163, the keychain holds no secret for the key
GetNoEntry(t) ==
  /\ pc[t] = "g_get"
  /\ is_none(store[arg[t].key])
  /\ VaultFinish(t, "get", Some(NoEntryError), Err(RetrieveFailed(NoEntryError)), "get_password")

\* lines 161-163, the keychain fails the read
GetErr(t) ==
  /\ pc[t] = "g_get"
  /\ \E e \in StoreErrors : VaultFinish(t, "get", Some(e), Err(RetrieveFailed(e)), "get_password")

(* ---------------------------- delete_api_key -------------------------- *)
CallDelete(t) ==
  /\ Dispatch(t)
  /\ VaultCalls < MaxVaultCalls
  /\ \E k \in Keys : arg' = [arg EXCEPT ![t] = [key |-> k, val |-> ""]]
  /\ pc' = [pc EXCEPT ![t] = "x_entry"]
  /\ UNCHANGED <<reqs, store, vaultLog, store0, kaVars>>

\* line 168
DeleteEntryErr(t) == EntryErr(t, "x_entry", "delete")
DeleteEntryOk(t) == EntryOk(t, "x_entry", "x_del")

\* lines 170-175, the keychain removes the key's secret
DeleteOk(t) ==
  /\ pc[t] = "x_del"
  /\ is_some(store[arg[t].key])
  /\ store' = [store EXCEPT ![arg[t].key] = None]
  /\ Finish(t)
  /\ arg' = [arg EXCEPT ![t] = NoArg]
  /\ vaultLog' = Append(vaultLog, VaultEntry(t, "delete", None, None,
                                             Ok(DeletedMsg(arg[t].key)), "delete_credential"))
  /\ UNCHANGED <<store0, kaVars>>

DeleteNoEntry_SilentSuccess(t) ==
  /\ pc[t] = "x_del"
  /\ is_none(store[arg[t].key])
  /\ VaultFinish(t, "delete", None, Ok(DeletedMsg(arg[t].key)), "delete_credential")

\* lines 170-172, the keychain holds no secret for the key
DeleteNoEntry(t) ==
  /\ pc[t] = "x_del"
  /\ is_none(store[arg[t].key])
  /\ VaultFinish(t, "delete", Some(NoEntryError), Err(DeleteFailed(NoEntryError)), "delete_credential")

\* lines 170-172, the keychain rejects the removal
DeleteErr(t) ==
  /\ pc[t] = "x_del"
  /\ \E e \in StoreErrors : VaultFinish(t, "delete", Some(e), Err(DeleteFailed(e)), "delete_credential")

(* --------------------------- specifications --------------------------- *)
KeepAlive(t) ==
  \/ CallEnable(t)
  \/ EnableLock(t)
  \/ EnableLockErr(t)
  \/ EnableAlready(t)
  \/ EnableCheckNone(t)
  \/ EnableNewOk(t)
  \/ EnableNewErr(t)
  \/ EnableNewPanic(t)
  \/ EnableInstall(t)
  \/ CallDisable(t)
  \/ DisableLock(t)
  \/ DisableLockErr(t)
  \/ DisableNotActive(t)
  \/ DisableDrop(t)

Vault(t) ==
  \/ CallStore(t)
  \/ StoreEntryErr(t)
  \/ StoreEntryOk(t)
  \/ StoreSetOk(t)
  \/ StoreSetErr(t)
  \/ CallGet(t)
  \/ GetEntryErr(t)
  \/ GetEntryOk(t)
  \/ GetOk(t)
  \/ GetNoEntry(t)
  \/ GetErr(t)
  \/ CallDelete(t)
  \/ DeleteEntryErr(t)
  \/ DeleteEntryOk(t)
  \/ DeleteOk(t)
  \/ DeleteNoEntry(t)
  \/ DeleteErr(t)

\* the keep-alive commands alone, over a keychain that holds nothing
InitKA == Init /\ store = [k \in Keys |-> None]
NextKA == \E t \in Threads : KeepAlive(t)
SpecKA == InitKA /\ [][NextKA]_vars

\* a step of a keep-alive command that is running on thread t
StepKA(t) ==
  \/ EnableLock(t)
  \/ EnableLockErr(t)
  \/ EnableAlready(t)
  \/ EnableCheckNone(t)
  \/ EnableNewOk(t)
  \/ EnableNewErr(t)
  \/ EnableNewPanic(t)
  \/ EnableInstall(t)
  \/ DisableLock(t)
  \/ DisableLockErr(t)
  \/ DisableNotActive(t)
  \/ DisableDrop(t)

\* the keep-alive commands alone, when every thread that can take a step
\* is scheduled in the end and every OS call comes back
SpecKAFair == SpecKA /\ \A t \in Threads : WF_vars(StepKA(t))

\* the keychain commands alone
NextVault == \E t \in Threads : Vault(t)
SpecVault == Init /\ [][NextVault]_vars

\* all five commands
Next == \E t \in Threads : KeepAlive(t) \/ Vault(t)
Spec == Init /\ [][Next]_vars

\* all five commands, over a keychain that holds a secret under one key
InitAll == Init /\ store = [k \in Keys |-> IF k = "k1" THEN Some("v1") ELSE None]
SpecAll == InitAll /\ [][Next]_vars

(* ------------------------------- claims ------------------------------- *)
KaIdx == 1..Len(kaLog)
VaultIdx == 1..Len(vaultLog)
\* no command is running
Quiet == \A t \in Threads : pc[t] \in {"idle", "panicked"}
\* the positions at which a thread holds the mutex
CriticalPcs == {"e_check", "e_new", "e_install", "d_check"}
LockFailed(e) == e.fault = Some("lock")
OsRefused(e) == e.fault \in {Some(x) : x \in PowerErrors}

\* C1: whatever the interleaving of enable and disable calls, the slot holds
\* zero or one handle, that handle is alive at the OS, every handle alive at
\* the OS is the one in the slot or the one the lock holder is about to
\* install (none is leaked), enable installs only into an empty slot, and a
\* held handle is never replaced by another one.
C1_SlotHoldsOneHandleNeverOverwritten ==
  /\ [](/\ Len(handle) <= 1
        /\ is_some(handle) => handle[1] \in osHandles
        /\ \A h \in osHandles :
             \/ handle = Some(h)
             \/ \E t \in Threads : pc[t] = "e_install" /\ lockHolder = t /\ awake[t] = Some(h))
  /\ [][/\ \A t \in Threads : pc[t] = "e_install" /\ pc'[t] # "e_install" => is_none(handle)
        /\ is_some(handle) /\ handle' # handle => is_none(handle')]_vars

\* C1 witness: the slot holds a handle after an enable that found the slot
\* taken while another keep-alive call was running, and after a disable.
C1_Witness ==
  /\ is_some(handle)
  /\ \E i \in KaIdx : kaLog[i].res = Ok(MsgAlreadyActive) /\ kaLog[i].others >= 1
  /\ \E i \in KaIdx : kaLog[i].res = Ok(MsgDisabled)

\* only enable calls have been made, and all of them have ended
OnlyEnables ==
  /\ Len(kaLog) >= 1
  /\ Quiet
  /\ \A i \in KaIdx : kaLog[i].op = "enable"

\* C2 as claimed: N concurrent enable calls from Inactive, no disable running,
\* end with exactly one handle held and all N calls return success.
C2_ConcurrentEnablesAllSucceed ==
  OnlyEnables =>
    /\ is_some(handle)
    /\ Cardinality(osHandles) = 1
    /\ \A i \in KaIdx : kaLog[i].res.ok

\* C2 amended: N concurrent enable calls from Inactive, no disable running,
\* never deadlock; and when no handle creation was refused by the OS or
\* panicked, they end with exactly one handle held, the first call through
\* the lock returns "Keep-Alive enabled" and every other one "Keep-Alive
\* already active".
C2_ConcurrentEnablesSucceedUnlessOsFails ==
  /\ (OnlyEnables /\ \A i \in KaIdx : kaLog[i].fault = None) =>
       /\ is_some(handle)
       /\ osHandles = {handle[1]}
       /\ \A i \in KaIdx :
            kaLog[i].res = IF i = 1 THEN Ok(MsgEnabled) ELSE Ok(MsgAlreadyActive)
  /\ ((\A i \in KaIdx : kaLog[i].op = "enable")
      /\ (\A t \in Threads : pc[t] \notin {"d_lock", "d_check"})
      /\ ~Quiet) => ENABLED NextKA

\* C2 witness: three enable calls have ended successfully, and two others
\* were still running when the first of them ended.
C2_Witness ==
  /\ OnlyEnables
  /\ Len(kaLog) >= 3
  /\ kaLog[1].others >= 2
  /\ \A i \in KaIdx : kaLog[i].res.ok

\* C3: an enable that runs while the slot holds a handle returns
\* Ok("Keep-Alive already active"), makes no OS request and leaves the slot
\* as it is; so an enable right after a successful enable returns "already
\* active" and the slot still holds the first one's handle, and enable calls
\* alone never get a second handle from the OS.
C3_EnableIdempotent ==
  /\ \A i \in KaIdx :
       (kaLog[i].op = "enable" /\ is_some(kaLog[i].pre)) =>
         /\ kaLog[i].res = Ok(MsgAlreadyActive)
         /\ kaLog[i].reqs = <<>>
         /\ kaLog[i].post = kaLog[i].pre
  /\ \A i \in KaIdx :
       (i + 1 \in KaIdx /\ kaLog[i].op = "enable" /\ kaLog[i].res.ok
          /\ kaLog[i + 1].op = "enable") =>
         /\ kaLog[i + 1].res = Ok(MsgAlreadyActive)
         /\ kaLog[i + 1].post = kaLog[i].post
  /\ (\A i \in KaIdx : kaLog[i].op = "enable") => created <= 1

\* C3 witness: an enable that installed a handle is followed by an enable
\* that returned "already active".
C3_Witness ==
  \E i \in KaIdx :
    /\ i + 1 \in KaIdx
    /\ kaLog[i].res = Ok(MsgEnabled)
    /\ kaLog[i + 1].res = Ok(MsgAlreadyActive)

\* C4 as claimed: a disable that runs while the slot is empty returns
\* Ok("Keep-Alive not active") and leaves the slot empty.
C4_DisableInactiveAlwaysSucceeds ==
  \A i \in KaIdx :
    (kaLog[i].op = "disable" /\ is_none(kaLog[i].pre)) =>
      /\ kaLog[i].res = Ok(MsgNotActive)
      /\ is_none(kaLog[i].post)

\* C4 amended: a disable that runs while the slot is empty and that obtains
\* the lock returns Ok("Keep-Alive not active"), makes no OS request and
\* leaves the slot empty; on a process where only disable has been called
\* every one of them does.
C4_DisableInactiveSucceedsOnceLocked ==
  /\ \A i \in KaIdx :
       (kaLog[i].op = "disable" /\ is_none(kaLog[i].pre) /\ ~LockFailed(kaLog[i])) =>
         /\ kaLog[i].res = Ok(MsgNotActive)
         /\ kaLog[i].reqs = <<>>
         /\ is_none(kaLog[i].post)
  /\ (\A i \in KaIdx : kaLog[i].op = "disable") =>
       /\ \A i \in KaIdx : kaLog[i].res = Ok(MsgNotActive)
       /\ Quiet => is_none(handle)

\* C4 witness: three disable calls on a fresh process have each returned
\* "not active", one of them while another call was running.
C4_Witness ==
  /\ Len(kaLog) >= 3
  /\ \A i \in KaIdx : kaLog[i].res = Ok(MsgNotActive)
  /\ \E i \in KaIdx : kaLog[i].others >= 1

\* C5: a successful enable followed, with no keep-alive call in between, by
\* a disable leaves the slot empty and no handle alive at the OS, and a
\* disable right after that returns Ok("Keep-Alive not active").
C5_EnableDisableRoundTrip ==
  /\ \A i \in KaIdx :
       (i + 1 \in KaIdx /\ kaLog[i].op = "enable" /\ kaLog[i].res.ok
          /\ kaLog[i + 1].op = "disable") =>
         /\ kaLog[i + 1].res = Ok(MsgDisabled)
         /\ is_none(kaLog[i + 1].post)
         /\ (i + 2 \in KaIdx /\ kaLog[i + 2].op = "disable") =>
              kaLog[i + 2].res = Ok(MsgNotActive)
  /\ (/\ Len(kaLog) >= 2
      /\ kaLog[Len(kaLog) - 1].op = "enable"
      /\ kaLog[Len(kaLog) - 1].res.ok
      /\ kaLog[Len(kaLog)].op = "disable"
      /\ lockHolder = 0) => (is_none(handle) /\ osHandles = {})

\* C5 witness: starting from Active, an enable ("already active"), then a
\* disable, then a disable that returned "not active".
C5_Witness ==
  \E i \in KaIdx :
    /\ i + 2 \in KaIdx
    /\ kaLog[i].res = Ok(MsgAlreadyActive)
    /\ kaLog[i + 1].res = Ok(MsgDisabled)
    /\ kaLog[i + 2].res = Ok(MsgNotActive)
    /\ is_none(handle)

\* C6: an enable whose handle creation the OS refuses ran on an empty slot,
\* returns Err("Failed to enable Keep-Alive: " + the OS error), leaves the
\* slot empty, and leaves the lock released and unpoisoned: no thread that
\* is outside its critical section holds the lock, the next call does not
\* fail on the lock, and a next enable that the OS grants returns
\* Ok("Keep-Alive enabled").
C6_OsRefusalReturnsErrorAndReleases ==
  /\ \A i \in KaIdx :
       (kaLog[i].op = "enable" /\ OsRefused(kaLog[i])) =>
         /\ is_none(kaLog[i].pre)
         /\ kaLog[i].res = Err(EnableFailed(kaLog[i].fault[1]))
         /\ is_none(kaLog[i].post)
         /\ i + 1 \in KaIdx => ~LockFailed(kaLog[i + 1])
         /\ (i + 1 \in KaIdx /\ kaLog[i + 1].op = "enable" /\ kaLog[i + 1].fault = None) =>
              kaLog[i + 1].res = Ok(MsgEnabled)
  /\ \A t \in Threads : lockHolder = t => pc[t] \in CriticalPcs

\* C6 witness: an enable refused by the OS is followed by an enable that
\* installed a handle.
C6_Witness ==
  \E i \in KaIdx :
    /\ i + 1 \in KaIdx
    /\ OsRefused(kaLog[i])
    /\ kaLog[i + 1].res = Ok(MsgEnabled)
    /\ is_some(handle)

\* C7: a disable that obtained the lock returns Ok("Keep-Alive disabled")
\* if the slot held a handle and Ok("Keep-Alive not active") if not, and
\* leaves the slot empty; a disable that returns an error failed on the lock.
C7_DisableSucceedsOnceLocked ==
  \A i \in KaIdx :
    kaLog[i].op = "disable" =>
      /\ ~LockFailed(kaLog[i]) =>
           /\ kaLog[i].res = IF is_some(kaLog[i].pre) THEN Ok(MsgDisabled) ELSE Ok(MsgNotActive)
           /\ is_none(kaLog[i].post)
      /\ ~kaLog[i].res.ok => (LockFailed(kaLog[i]) /\ kaLog[i].res = Err(PoisonMsg))

\* C7 witness: one disable returned "disabled" and another failed on the
\* poisoned lock.
C7_Witness ==
  /\ \E i \in KaIdx : kaLog[i].res = Ok(MsgDisabled)
  /\ \E i \in KaIdx : kaLog[i].op = "disable" /\ LockFailed(kaLog[i])

\* C8: a lock failure is fatal to that single call only: once a call has
\* returned the lock error, a later enable or disable that reaches the lock
\* while no thread holds it can acquire it.
C8_LockFailureFatalToOneCallOnly ==
  \A t \in Threads :
    (/\ \E i \in KaIdx : LockFailed(kaLog[i])
     /\ pc[t] \in {"e_lock", "d_lock"}
     /\ lockHolder = 0) => ENABLED (EnableLock(t) \/ DisableLock(t))

\* a successful store or delete of key k
Mutates(e, k) == e.key = k /\ e.op \in {"store", "delete"} /\ e.res.ok
\* the keychain served the call's requests (a missing entry is an answer)
Available(e) == e.fault \notin {Some(x) : x \in StoreErrors}

\* C9: a get of key k that the keychain serves returns exactly the value of
\* the latest successful store of k before it (so the new value after an
\* overwrite, never the old one), and returns an error when the latest
\* successful store or delete of k before it is a delete.
C9_CredentialRoundTrip ==
  \A i, j \in VaultIdx :
    (/\ i < j
     /\ vaultLog[j].op = "get"
     /\ Available(vaultLog[j])
     /\ Mutates(vaultLog[i], vaultLog[j].key)
     /\ \A m \in VaultIdx : (i < m /\ m < j) => ~Mutates(vaultLog[m], vaultLog[j].key)) =>
      IF vaultLog[i].op = "store"
        THEN vaultLog[j].res = Ok(vaultLog[i].val)
        ELSE ~vaultLog[j].res.ok

\* C9 witness: a store of "v2" over a key that held "v1", then a get of that
\* key that returned "v2".
C9_Witness ==
  \E i \in VaultIdx :
    /\ i + 1 \in VaultIdx
    /\ vaultLog[i].op = "store" /\ vaultLog[i].res.ok
    /\ vaultLog[i].pre = Some("v1") /\ vaultLog[i].val = "v2"
    /\ vaultLog[i + 1].op = "get" /\ vaultLog[i + 1].key = vaultLog[i].key
    /\ vaultLog[i + 1].res = Ok("v2")

\* C10: a delete of a key that has no stored secret returns an error, never
\* Ok("Key 'k' deleted"), and the key still has no secret.
C10_DeleteMissingFails ==
  \A i \in VaultIdx :
    (vaultLog[i].op = "delete" /\ is_none(vaultLog[i].pre)) =>
      /\ ~vaultLog[i].res.ok
      /\ vaultLog[i].res.msg # DeletedMsg(vaultLog[i].key)
      /\ is_none(vaultLog[i].post)

\* C10 witness: a key was deleted and a second delete of it, served by the
\* keychain, failed.
C10_Witness ==
  \E i \in VaultIdx :
    /\ i + 1 \in VaultIdx
    /\ vaultLog[i].op = "delete" /\ vaultLog[i].res.ok
    /\ vaultLog[i + 1].op = "delete" /\ vaultLog[i + 1].key = vaultLog[i].key
    /\ vaultLog[i + 1].res = Err(DeleteFailed(NoEntryError))

\* the calls among the first n that changed key k's secret
WritesTo(k, n) == {i \in 1..n : Mutates(vaultLog[i], k)}
Latest(S) == CHOOSE i \in S : \A j \in S : j <= i
\* key k's secret as the first n calls left it
KeyAsOf(k, n) ==
  IF WritesTo(k, n) = {} THEN store0[k] ELSE vaultLog[Latest(WritesTo(k, n))].post

NoRepeat(rq) == \A a, b \in 1..Len(rq) : a # b => rq[a] # rq[b]
\* the error string the command returns when its OS request rq fails with e
FailureMsg(rq, e) ==
  CASE rq = "KeepAwake::new" -> EnableFailed(e)
    [] rq = "Entry::new" -> KeyringError(e)
    [] rq = "set_password" -> StoreFailed(e)
    [] rq = "get_password" -> RetrieveFailed(e)
    [] rq = "delete_credential" -> DeleteFailed(e)
\* the call of log entry e ended at a failed OS request and returned that
\* request's error
FailsAtLastRequest(e) ==
  /\ Len(e.reqs) >= 1
  /\ e.res = Err(FailureMsg(e.reqs[Len(e.reqs)], e.fault[1]))

\* C12: no retries and no swallowed errors. No enable, store, get or delete
\* call, running or ended, has issued any of its OS requests twice; a call
\* that met any failure did not return success; and a call whose OS request
\* was refused returned, as its Result, the error string of that request,
\* which was the last request it made.
C12_NoRetryNoSwallowedError ==
  /\ \A t \in Threads : NoRepeat(reqs[t])
  /\ \A i \in KaIdx :
       kaLog[i].op = "enable" =>
         /\ NoRepeat(kaLog[i].reqs)
         /\ kaLog[i].fault # None => ~kaLog[i].res.ok
         /\ OsRefused(kaLog[i]) => FailsAtLastRequest(kaLog[i])
  /\ \A i \in VaultIdx :
       /\ NoRepeat(vaultLog[i].reqs)
       /\ vaultLog[i].fault # None => FailsAtLastRequest(vaultLog[i])

\* C12 witness: the OS refused an enable, the keychain rejected the write of
\* a store whose entry it had opened, and a get found no secret; each call
\* returned its error.
C12_Witness ==
  /\ \E i \in KaIdx : kaLog[i].res = Err(EnableFailed("inhibit refused"))
  /\ \E i \in VaultIdx :
       /\ vaultLog[i].reqs = <<"Entry::new", "set_password">>
       /\ vaultLog[i].res = Err(StoreFailed("platform failure"))
  /\ \E i \in VaultIdx : vaultLog[i].res = Err(RetrieveFailed(NoEntryError))

\* the OS is keeping the machine from sleeping
Inhibited == \E h \in osHandles : h.idle \/ h.sleep
\* the step ends a call with the Result res
Returns(res) ==
  /\ Len(kaLog') = Len(kaLog) + 1
  /\ kaLog'[Len(kaLog')].res = res

\* C13: whenever no enable or disable call is inside its critical section,
\* the OS inhibition is in force iff the slot holds a handle; the step in
\* which a disable returns "Keep-Alive disabled" finds the inhibition in
\* force and leaves it revoked; and the only step that takes the slot from
\* holding a handle to empty is such a step of a disable call (nothing
\* expires by itself).
C13_InhibitedExactlyWhileActive ==
  /\ [](lockHolder = 0 => (Inhibited <=> is_some(handle)))
  /\ [][/\ Returns(Ok(MsgDisabled)) => Inhibited /\ ~Inhibited' /\ is_none(handle')
        /\ (is_some(handle) /\ is_none(handle')) =>
             /\ Returns(Ok(MsgDisabled))
             /\ \E t \in Threads : pc[t] = "d_check" /\ pc'[t] = "idle"]_vars

\* C13 witness: an enable, a disable that returned "Keep-Alive disabled" and
\* a second enable have ended; no call is in its critical section and the
\* inhibition is in force again, under a new handle.
C13_Witness ==
  /\ Len(kaLog) >= 3
  /\ kaLog[1].res = Ok(MsgEnabled)
  /\ kaLog[2].res = Ok(MsgDisabled)
  /\ kaLog[3].res = Ok(MsgEnabled)
  /\ lockHolder = 0
  /\ Inhibited
  /\ is_some(handle) /\ handle[1].id = 2

\* the positions of enable_keep_alive from its check of the slot to its
\* installation of the new handle
EnableSection == {"e_check", "e_new", "e_install"}

\* C14: an enable call holds the lock from its check of the slot, through
\* the creation of the OS handle, to the installation into the slot; a
\* handle that is created but not yet installed belongs to the lock holder
\* and the slot is then empty; so at most one OS inhibition handle exists at
\* any point, installed or not.
C14_OneHandleAtATime ==
  /\ Cardinality(osHandles) <= 1
  /\ \A t \in Threads :
       /\ pc[t] \in EnableSection => lockHolder = t
       /\ is_some(awake[t]) =>
            /\ pc[t] = "e_install"
            /\ is_none(handle)
            /\ osHandles = {awake[t][1]}
  /\ Cardinality({t \in Threads : pc[t] \in EnableSection}) <= 1

\* C14 witness: after an earlier handle was revoked, an enable call has
\* created a handle it has not installed yet; the slot is empty, that handle
\* is the only one at the OS, and another call waits for the lock.
C14_Witness ==
  \E t \in Threads :
    /\ pc[t] = "e_install"
    /\ is_some(awake[t]) /\ awake[t][1].id = 2
    /\ is_none(handle)
    /\ osHandles = {awake[t][1]}
    /\ \E u \in Threads : pc[u] = "e_lock"

\* the log entry's call changed the state of the manager
Activated(e) == is_none(e.pre) /\ is_some(e.post)
Deactivated(e) == is_some(e.pre) /\ is_none(e.post)
StateChanging(e) == Activated(e) \/ Deactivated(e)

\* C15: the calls take effect one at a time in the order in which they got
\* the lock, which is the order of the log. Each call starts from the state
\* the previous one left, the first from Inactive, and the slot is as the
\* last one left it; a call returns "Keep-Alive enabled" iff it took the
\* state from Inactive to Active and "Keep-Alive disabled" iff it took it
\* from Active to Inactive; so of two consecutive state-changing calls one
\* returned "enabled" and the other "disabled", and the first returned
\* "enabled".
C15_ResultsLinearizable ==
  /\ handle = IF kaLog = <<>> THEN None ELSE kaLog[Len(kaLog)].post
  /\ \A i \in KaIdx :
       /\ kaLog[i].pre = IF i = 1 THEN None ELSE kaLog[i - 1].post
       /\ kaLog[i].res = Ok(MsgEnabled) <=> Activated(kaLog[i])
       /\ kaLog[i].res = Ok(MsgDisabled) <=> Deactivated(kaLog[i])
       /\ (StateChanging(kaLog[i]) /\ \A m \in 1..(i - 1) : ~StateChanging(kaLog[m])) =>
            kaLog[i].res = Ok(MsgEnabled)
  /\ \A i, j \in KaIdx :
       (/\ i < j
        /\ StateChanging(kaLog[i]) /\ StateChanging(kaLog[j])
        /\ \A m \in KaIdx : (i < m /\ m < j) => ~StateChanging(kaLog[m])) =>
         /\ kaLog[i].res \in {Ok(MsgEnabled), Ok(MsgDisabled)}
         /\ kaLog[j].res \in {Ok(MsgEnabled), Ok(MsgDisabled)}
         /\ kaLog[i].res # kaLog[j].res

\* C15 witness: calls that ran concurrently returned, in lock order,
\* "enabled", "already active", "disabled", "enabled".
C15_Witness ==
  /\ Len(kaLog) = 4
  /\ kaLog[1].res = Ok(MsgEnabled)
  /\ kaLog[2].res = Ok(MsgAlreadyActive)
  /\ kaLog[3].res = Ok(MsgDisabled)
  /\ kaLog[4].res = Ok(MsgEnabled)
  /\ \E i \in KaIdx : kaLog[i].others >= 2

\* C16: a thread holds the lock only while it is inside enable or disable,
\* so every exit path (early return, error return, success, unwinding) has
\* released it; while a call is running some call can take a step; and,
\* when threads are scheduled fairly and OS calls come back, every enable
\* and disable call ends: it returns, or it unwinds when its OS call
\* panicked instead of returning.
C16_CallsReleaseLockAndReturn ==
  /\ [](\A t \in Threads : lockHolder = t => pc[t] \in CriticalPcs)
  /\ []((\E t \in Threads : pc[t] \in KaPcs) => \E t \in Threads : ENABLED StepKA(t))
  /\ \A t \in Threads : (pc[t] \in KaPcs) ~> (pc[t] \in {"idle", "panicked"})

\* C16 witness: three calls were running at once, the lock is free again,
\* and the calls that have ended left by the early return, the OS-failure
\* return, the normal success of enable and the normal success of disable.
C16_Witness ==
  /\ lockHolder = 0
  /\ Quiet
  /\ \E i \in KaIdx : kaLog[i].others = 2
  /\ \E i \in KaIdx : kaLog[i].res = Ok(MsgAlreadyActive) \/ kaLog[i].res = Ok(MsgNotActive)
  /\ \E i \in KaIdx : OsRefused(kaLog[i])
  /\ \E i \in KaIdx : kaLog[i].res = Ok(MsgEnabled)
  /\ \E i \in KaIdx : kaLog[i].res = Ok(MsgDisabled)

\* what the call of log entry e made of its key's secret
Effect(e) == IF e.op = "store" THEN Some(e.val) ELSE None

\* C17: whatever the interleaving of store, get and delete calls, a get that
\* succeeds returns a whole value that a store wrote under that key: the
\* value of the latest store of the key to take effect before the get read
\* it, with no delete of the key in between, or, when no store or delete of
\* the key took effect before, the value the keychain held for the key when
\* the process started. Once no keychain call is running, each key holds
\* the effect of the last store or delete of it to take effect (what it
\* started with when there was none).
C17_ConcurrentCredentialOpsAtomic ==
  /\ \A j \in VaultIdx :
       (vaultLog[j].op = "get" /\ vaultLog[j].res.ok) =>
         LET k == vaultLog[j].key
             w == WritesTo(k, j - 1)
         IN /\ vaultLog[j].res.msg \in Values
            /\ IF w = {} THEN store0[k] = Some(vaultLog[j].res.msg)
               ELSE /\ vaultLog[Latest(w)].op = "store"
                    /\ vaultLog[Latest(w)].val = vaultLog[j].res.msg
  /\ Running(VaultPcs) = 0 =>
       \A k \in Keys :
         LET w == WritesTo(k, Len(vaultLog))
         IN store[k] = IF w = {} THEN store0[k] ELSE Effect(vaultLog[Latest(w)])

\* C17 witness: a store of "v2" over a key that held "v1" took effect while
\* a get of the same key was running, and that get then returned "v2".
C17_Witness ==
  /\ Len(vaultLog) = 2
  /\ vaultLog[1].op = "store" /\ vaultLog[1].res.ok
  /\ vaultLog[1].val = "v2" /\ vaultLog[1].others = 1
  /\ store0[vaultLog[1].key] = Some("v1")
  /\ vaultLog[2].op = "get" /\ vaultLog[2].key = vaultLog[1].key
  /\ vaultLog[2].res = Ok("v2")

\* thread t is running get_api_key
InGet(t) == pc[t] \in {"g_entry", "g_get"}
\* the step ends a keychain call, leaving the log entry e
Ends(t, e) ==
  /\ pc[t] \in VaultPcs /\ pc'[t] = "idle"
  /\ vaultLog' = Append(vaultLog, e)

\* C18: no step of a get call changes any key's secret, whether the get
\* succeeds or fails; the step in which a store or delete call returns an
\* error (entry not opened, write or removal rejected, key missing) changes
\* no key's secret, and neither does any earlier step of a call; so the only
\* step that changes the keychain is the last step of a store or delete
\* that returns Ok.
C18_ReadsAndFailuresChangeNothing ==
  [][\A t \in Threads :
       /\ (InGet(t) /\ pc'[t] # pc[t]) => store' = store
       /\ (pc[t] \in VaultPcs /\ pc'[t] \in VaultPcs \ {pc[t]}) => store' = store
       /\ \A e \in {vaultLog'[i] : i \in 1..Len(vaultLog')} :
            Ends(t, e) =>
              /\ ~e.res.ok => (store' = store /\ e.post = e.pre)
              /\ e.op = "get" => (store' = store /\ e.post = e.pre)
              /\ store' # store => (e.op \in {"store", "delete"} /\ e.res.ok)]_vars

\* C18 witness: a store of "v2" under a key that holds "v1" was rejected at
\* the write and a get failed; the keychain is as it was at the start and
\* the key still holds "v1".
C18_Witness ==
  /\ \E i \in VaultIdx :
       /\ vaultLog[i].res = Err(StoreFailed("platform failure"))
       /\ vaultLog[i].val = "v2"
       /\ vaultLog[i].pre = Some("v1")
       /\ store[vaultLog[i].key] = Some("v1")
  /\ \E i \in VaultIdx : vaultLog[i].op = "get" /\ ~vaultLog[i].res.ok
  /\ store = store0

\* the step is a step of a command of the given kind
StepOf(pcs) == \E t \in Threads : pc'[t] # pc[t] /\ (pc[t] \in pcs \/ pc'[t] \in pcs)

\* C19: the two components are independent. No step of store, get or delete
\* changes the slot, the lock, its poison flag or the OS handles; no step of
\* enable or disable changes the keychain or a keychain call; and a keychain
\* call is never held up by the lock: wherever it stands, its next request
\* can be served, also while an enable or disable call holds the lock and
\* after the lock was poisoned.
C19_ComponentsIndependent ==
  /\ [][/\ StepOf(VaultPcs) => UNCHANGED kaVars
        /\ StepOf(KaPcs) => UNCHANGED vaultVars]_vars
  /\ [](\A t \in Threads :
          /\ pc[t] = "s_entry" => ENABLED StoreEntryOk(t)
          /\ pc[t] = "g_entry" => ENABLED GetEntryOk(t)
          /\ pc[t] = "x_entry" => ENABLED DeleteEntryOk(t)
          /\ pc[t] = "s_set" => ENABLED StoreSetOk(t)
          /\ pc[t] = "g_get" => ENABLED (GetOk(t) \/ GetNoEntry(t))
          /\ pc[t] = "x_del" => ENABLED (DeleteOk(t) \/ DeleteNoEntry(t)))

\* C19 witness: the lock is poisoned; one keychain call succeeded while an
\* enable or disable call held the lock and another one succeeded after the
\* lock was poisoned; the keychain has changed.
C19_Witness ==
  /\ poisoned
  /\ \E i \in VaultIdx : vaultLog[i].mutex = "held" /\ vaultLog[i].res.ok
  /\ \E i \in VaultIdx : vaultLog[i].mutex = "poisoned" /\ vaultLog[i].res.ok
  /\ store # store0

\* the configuration of enable_keep_alive: the display may sleep, idle
\* sleep and system sleep are blocked
FixedConfig(h) == h.display = FALSE /\ h.idle = TRUE /\ h.sleep = TRUE

====
